---- MODULE Spec2Model ----
(***************************************************************************)
(* YetAnotherKeyboxChecker (src/main.py): the batch run of main() as a     *)
(* state machine, with get_online_serial_list, process_certificate and the *)
(* three text steps of the file loop (split, re.sub, re.findall) as        *)
(* operators.                                                              *)
(*                                                                         *)
(* Strings that the code transforms character by character (serials,       *)
(* table keys, the prompt answer, file names) are sequences of             *)
(* one-character strings.  Strings that the code only compares as a whole  *)
(* (status, reason) are TLA+ strings.                                      *)
(*                                                                         *)
(* File texts are sequences of lexemes: the literals the three regular     *)
(* expressions of main() are made of, plus opaque text.  Each lexeme       *)
(* carries the index it had in the raw file (field "at"), which the code   *)
(* never reads: it only lets properties speak about where an extracted     *)
(* block came from.                                                        *)
(***************************************************************************)
EXTENDS Integers, Sequences, FiniteSets, TLC

VARIABLES
    pc,                 \* position of main(): see the actions
    raw,                \* file name -> raw text of the file (never written)
    online_serials,     \* main.py:68
    disk,               \* names of the files in SCRIPT_DIR
    xml_files,          \* main.py:70
    fidx,               \* index of xml_file in xml_files (the for of line 76)
    content,            \* main.py:83, 85
    certs,              \* main.py:87
    cidx,               \* i of line 97
    last,               \* the tuple process_certificate returned last (line 99)
    file_matches,       \* main.py:77
    found_count,        \* main.py:62
    total_count,        \* main.py:63
    files_with_matches, \* main.py:64
    files_to_delete,    \* main.py:65
    printed,            \* what main() has printed so far, in order
    answer,             \* the line input() returned (line 153)
    confirm,            \* main.py:152
    didx,               \* index of file_name in files_to_delete (line 163)
    deleted_count,      \* main.py:162
    removes             \* the os.remove calls made so far, in order

vars == <<pc, raw, online_serials, disk, xml_files, fidx, content,
          certs, cidx, last, file_matches, found_count, total_count,
          files_with_matches, files_to_delete, printed, answer, confirm,
          didx, deleted_count, removes>>

-----------------------------------------------------------------------------
(* Bounds of the model *)

MaxFiles == 2        \* files in SCRIPT_DIR
MaxSerial == 17      \* certificate serial numbers range over 0..MaxSerial
MaxIssuerLen == 2    \* length of an issuer serialNumber attribute value
MaxPieces == 4       \* pieces a raw text is assembled from (SpecExtract)

-----------------------------------------------------------------------------
(* Character strings *)

\* Python's None where a string is expected: no character string equals it.
None == <<"None">>

\* str.lower() on the characters the model uses.
LowerChar(c) ==
    CASE c = "A" -> "a"
      [] c = "B" -> "b"
      [] c = "E" -> "e"
      [] c = "G" -> "g"
      [] c = "L" -> "l"
      [] c = "M" -> "m"
      [] c = "N" -> "n"
      [] c = "S" -> "s"
      [] c = "X" -> "x"
      [] c = "Y" -> "y"
      [] OTHER -> c

Lower(s) == [i \in 1..Len(s) |-> LowerChar(s[i])]

RECURSIVE LStripSet(_, _)
\* str.lstrip(chars)
LStripSet(s, chars) ==
    IF s # <<>> /\ Head(s) \in chars THEN LStripSet(Tail(s), chars) ELSE s

RECURSIVE RStripSet(_, _)
RStripSet(s, chars) ==
    IF s # <<>> /\ s[Len(s)] \in chars
    THEN RStripSet(SubSeq(s, 1, Len(s) - 1), chars)
    ELSE s

Whitespace == {" ", "\t", "\n"}

\* str.strip()
Strip(s) == RStripSet(LStripSet(s, Whitespace), Whitespace)

\* str.endswith(suffix)
EndsWith(s, suffix) ==
    /\ Len(s) >= Len(suffix)
    /\ SubSeq(s, Len(s) - Len(suffix) + 1, Len(s)) = suffix

HexDigits == <<"0", "1", "2", "3", "4", "5", "6", "7",
               "8", "9", "a", "b", "c", "d", "e", "f">>

HexChars == {HexDigits[i] : i \in 1..16}

RECURSIVE FormatHex(_)
\* format(n, "x") for n >= 0
FormatHex(n) ==
    IF n < 16 THEN <<HexDigits[n + 1]>>
    ELSE FormatHex(n \div 16) \o <<HexDigits[(n % 16) + 1]>>

\* re.sub(r"[^a-f0-9]", "", s)
KeepHex(s) == SelectSeq(s, LAMBDA c : c \in HexChars)

-----------------------------------------------------------------------------
(* get_online_serial_list *)

\* dict.get default markers: a JSON member that is not there.
Absent == "(absent)"

EmptyTable == <<>>

\* entries[key] = value
Put(table, key, value) ==
    [k \in (DOMAIN table) \cup {key} |-> IF k = key THEN value ELSE table[k]]

\* info.get(field, default)
GetOr(info, field, default) ==
    IF info[field] = Absent THEN default ELSE info[field]

RECURSIVE BuildEntries(_, _)
\* The for loop of lines 17-21 over the (serial, info) pairs, in JSON order.
\* The result is [raised, entries]: info.get raises AttributeError when a
\* value of the "entries" object is not itself an object.
BuildEntries(items, entries) ==
    IF items = <<>> THEN [raised |-> FALSE, entries |-> entries]
    ELSE LET serial == Head(items).serial
             info == Head(items).info
         IN IF ~info.is_dict
            THEN [raised |-> TRUE, entries |-> entries]
            ELSE BuildEntries(Tail(items),
                     Put(entries, Lower(serial),
                         [status |-> GetOr(info, "status", "UNKNOWN"),
                          reason |-> GetOr(info, "reason", "UNSPECIFIED")]))

\* The outcomes of requests.get / raise_for_status / response.json that raise
\* inside the try of line 12, "not_object" being a JSON document whose top
\* level has no .get (a list, a number).
FetchFailures == {"network_error", "http_error", "bad_json", "not_object"}

\* On an exception the partially built table is dropped (a bug would keep it).
get_online_serial_list_keeps_partial(resp) ==
    IF resp.kind \in FetchFailures THEN EmptyTable
    ELSE BuildEntries(resp.entries, EmptyTable).entries

get_online_serial_list(resp) ==
    IF resp.kind \in FetchFailures THEN EmptyTable
    ELSE LET built == BuildEntries(resp.entries, EmptyTable)
         IN IF built.raised THEN EmptyTable ELSE built.entries

-----------------------------------------------------------------------------
(* process_certificate *)

\* Python's None where a table entry is expected.
NoInfo == [none |-> TRUE]

\* The x509.Certificate fields the code reads: serial_number (an integer) and
\* issuer (a sequence of attributes [oid, value]).
RECURSIVE IssuerSerial(_)
\* Lines 35-39: the first SERIAL_NUMBER attribute of the issuer, normalised.
IssuerSerial(issuer) ==
    IF issuer = <<>> THEN None
    ELSE IF Head(issuer).oid = "SERIAL_NUMBER"
         THEN KeepHex(Lower(Head(issuer).value))
         ELSE IssuerSerial(Tail(issuer))

\* Lines 32-33.
HexSerial(serial_number) == LStripSet(Lower(FormatHex(serial_number)), {"0"})

\* Truth value of a str-or-None in a Python condition.
Truthy(s) == s # None /\ s # <<>>

\* Lines 41-45 with the two lookups in the other order.
Lookup_issuer_first(hex_serial, issuer_serial, table) ==
    IF Truthy(issuer_serial) /\ issuer_serial \in DOMAIN table
    THEN table[issuer_serial]
    ELSE IF hex_serial \in DOMAIN table THEN table[hex_serial]
    ELSE NoInfo

\* Lines 41-45.
Lookup(hex_serial, issuer_serial, table) ==
    IF hex_serial \in DOMAIN table THEN table[hex_serial]
    ELSE IF Truthy(issuer_serial) /\ issuer_serial \in DOMAIN table
         THEN table[issuer_serial]
    ELSE NoInfo

\* The tuple of line 53.
ProcessingError ==
    [hex_serial |-> None, issuer_serial |-> None, found |-> FALSE,
     status_info |-> NoInfo, raised |-> TRUE]

\* process_certificate on the outcome of load_pem_x509_certificate (line 30):
\* parsed is [ok |-> FALSE] when the load raised, else [ok |-> TRUE, cert].
\* "raised" records that the except branch of line 51 ran.
process_certificate(parsed, table) ==
    IF ~parsed.ok THEN ProcessingError
    ELSE LET hex_serial == HexSerial(parsed.cert.serial_number)
             issuer_serial == IssuerSerial(parsed.cert.issuer)
             status_info == Lookup(hex_serial, issuer_serial, table)
         IN [hex_serial |-> hex_serial, issuer_serial |-> issuer_serial,
             found |-> status_info # NoInfo, status_info |-> status_info,
             raised |-> FALSE]

-----------------------------------------------------------------------------
(* The text steps of the file loop: lines 83, 85 and 87-91 *)

\* Lexeme kinds.  The literals of the three patterns:
\*   "T"  = "</CertificateChain>"      "CO" = "<!--"     "CC" = "-->"
\*   "D"  = "-----"    "BC" = "BEGIN CERTIFICATE"    "EC" = "END CERTIFICATE"
\* and what lies between them:
\*   "DER" = the base64 body of a certificate (field cert: what it decodes to)
\*   "X"   = any other text without the characters "-", "<" and ">"
\* so that "-----BEGIN CERTIFICATE" is a "D" followed by a "BC", and
\* "-----END CERTIFICATE" a "D" followed by an "EC".
Kinds(text) == [i \in 1..Len(text) |-> text[i].k]

RECURSIVE IndexFrom(_, _, _)
\* str.find(kind, start): the first index >= start holding kind, or 0.
IndexFrom(text, kind, start) ==
    IF start > Len(text) THEN 0
    ELSE IF text[start].k = kind THEN start
    ELSE IndexFrom(text, kind, start + 1)

RECURSIVE IndexPairFrom(_, _, _, _)
\* The first index >= start holding k1 directly followed by k2, or 0.
IndexPairFrom(text, k1, k2, start) ==
    IF start >= Len(text) THEN 0
    ELSE IF text[start].k = k1 /\ text[start + 1].k = k2 THEN start
    ELSE IndexPairFrom(text, k1, k2, start + 1)

\* Line 83: f.read().split("</CertificateChain>")[0]
Truncate(text) ==
    LET t == IndexFrom(text, "T", 1)
    IN IF t = 0 THEN text ELSE SubSeq(text, 1, t - 1)

RECURSIVE StripComments(_)
\* Line 85: re.sub(r"<!--.*?-->", "", content, flags=re.DOTALL).  The
\* leftmost "<!--" that has a "-->" after it is removed up to the first such
\* "-->", and the scan goes on behind it.
StripComments(text) ==
    LET open == IndexFrom(text, "CO", 1)
        close == IF open = 0 THEN 0 ELSE IndexFrom(text, "CC", open + 1)
    IN IF close = 0 THEN text
       ELSE SubSeq(text, 1, open - 1)
            \o StripComments(SubSeq(text, close + 1, Len(text)))

RECURSIVE FindAll_greedy(_)
\* Lines 87-91 with .* in place of the first .*? : the block runs to the
\* last END marker of the text.
FindAll_greedy(text) ==
    LET begin == IndexPairFrom(text, "D", "BC", 1)
        ends == {e \in 1..Len(text) - 1 :
                    /\ begin # 0 /\ e >= begin + 2
                    /\ text[e].k = "D" /\ text[e + 1].k = "EC"
                    /\ IndexFrom(text, "D", e + 2) # 0}
        end == IF ends = {} THEN 0 ELSE CHOOSE e \in ends : \A x \in ends : x <= e
        dashes == IF end = 0 THEN 0 ELSE IndexFrom(text, "D", end + 2)
    IN IF dashes = 0 THEN <<>>
       ELSE <<SubSeq(text, begin, dashes)>>
            \o FindAll_greedy(SubSeq(text, dashes + 1, Len(text)))

RECURSIVE FindAll(_)
\* Lines 87-91: re.findall(r"(-----BEGIN CERTIFICATE.*?-----END CERTIFICATE
\* .*?-----)", content, re.DOTALL).  From the leftmost "-----BEGIN
\* CERTIFICATE", lazily to the first "-----END CERTIFICATE" behind it, then
\* lazily to the first "-----" behind that; the scan goes on behind the match.
\* When the leftmost BEGIN has no such continuation, no later one has.
\* (A block's end is at lexeme granularity: when the closing dashes directly
\* follow a "<!--", the pattern's five dashes start two characters earlier.)
FindAll(text) ==
    LET begin == IndexPairFrom(text, "D", "BC", 1)
        end == IF begin = 0 THEN 0 ELSE IndexPairFrom(text, "D", "EC", begin + 2)
        dashes == IF end = 0 THEN 0 ELSE IndexFrom(text, "D", end + 2)
    IN IF dashes = 0 THEN <<>>
       ELSE <<SubSeq(text, begin, dashes)>>
            \o FindAll(SubSeq(text, dashes + 1, Len(text)))

\* The PEM framing of one certificate body.
PemKinds == <<"D", "BC", "D", "DER", "D", "EC", "D">>

\* Line 30: x509.load_pem_x509_certificate(cert_pem.encode(), ...).  A block
\* that is exactly the PEM framing of a certificate body loads; a block
\* without a certificate body raises.  What the library does with a body
\* inside a block that has other text around it is not in the source: it may
\* load that body or raise.
LoadPem(block) ==
    IF Kinds(block) = PemKinds THEN {[ok |-> TRUE, cert |-> block[4].cert]}
    ELSE {[ok |-> FALSE]}
         \cup {[ok |-> TRUE, cert |-> block[i].cert] :
                  i \in {j \in 1..Len(block) : block[j].k = "DER"}}

-----------------------------------------------------------------------------
(* The inputs of a run *)

Lex(kind) == [k |-> kind]

Der(cert) == [k |-> "DER", cert |-> cert]

\* A certificate in its PEM framing, as a raw text.
Pem(cert) ==
    <<Lex("D"), Lex("BC"), Lex("D"), Der(cert), Lex("D"), Lex("EC"), Lex("D")>>

\* A raw text with every lexeme's index written on it.
Tag(text) ==
    [i \in 1..Len(text) |->
        [f \in (DOMAIN text[i]) \cup {"at"} |->
            IF f = "at" THEN i ELSE text[i][f]]]

Attr(oid, value) == [oid |-> oid, value |-> value]

Cert(serial_number, issuer) ==
    [serial_number |-> serial_number, issuer |-> issuer]

CertA == Cert(26, <<Attr("CN", <<"G">>)>>)
CertB == Cert(2, <<Attr("CN", <<"G">>), Attr("SERIAL_NUMBER", <<"1", "A">>)>>)
CertC == Cert(1, <<Attr("SERIAL_NUMBER", <<"1", "a">>)>>)
CertD == Cert(3, <<>>)

\* The raw texts of the files of a run of main().
FileTexts ==
    { <<Lex("X")>>,
      Pem(CertA),
      Pem(CertA) \o <<Lex("X")>> \o Pem(CertB),
      Pem(CertC) \o <<Lex("D"), Lex("BC"), Lex("X"), Lex("D"), Lex("EC"), Lex("D")>>,
      <<Lex("CO")>> \o Pem(CertA) \o <<Lex("CC")>> \o Pem(CertD),
      Pem(CertD) \o <<Lex("T")>> \o Pem(CertA),
      <<Lex("D"), Lex("BC"), Lex("X")>> \o Pem(CertA) }

Info(status, reason) == [is_dict |-> TRUE, status |-> status, reason |-> reason]

NotADict == [is_dict |-> FALSE, status |-> Absent, reason |-> Absent]

Item(serial, info) == [serial |-> serial, info |-> info]

\* What the GET of line 13 can yield: the failures, a document without
\* "entries", and documents with entries.
Responses ==
    {[kind |-> f, entries |-> <<>>] : f \in FetchFailures}
    \cup {[kind |-> "no_entries", entries |-> <<>>]}
    \cup {[kind |-> "ok", entries |-> e] : e \in
           { <<Item(<<"1", "A">>, Info("REVOKED", "KEY_COMPROMISE")),
               Item(<<"1">>, Info("revoked", Absent))>>,
             <<Item(<<"1", "A">>, Info("REVOKED", "KEY_COMPROMISE")),
               Item(<<"1", "a">>, Info(Absent, "SUPERSEDED")),
               Item(<<"3">>, Info("VALID", Absent))>>,
             <<Item(<<"1", "A">>, Info("REVOKED", "KEY_COMPROMISE")),
               Item(<<"3">>, NotADict)>> }}

\* The except branch of lines 23-25 runs.
FetchRaises(resp) ==
    \/ resp.kind \in FetchFailures
    \/ BuildEntries(resp.entries, EmptyTable).raised

Extensions == {<<".", "X", "m", "l">>, <<".", "t", "x", "t">>}

FileName(i, ext) == <<HexDigits[i + 1]>> \o ext

\* What the user can type at the prompt of line 153.
Answers ==
    { <<>>, <<"y">>, <<" ", "Y", "\n">>, <<"Y", "E", "S">>, <<"y", "e", "s", " ">>,
      <<"n">>, <<"N", "o">>, <<"y", "y">>, <<"y", " ", "e", "s">> }

\* Every order of the elements of a finite set.
Orders(S) ==
    {o \in [1..Cardinality(S) -> S] :
        \A i, j \in 1..Cardinality(S) : o[i] = o[j] => i = j}

-----------------------------------------------------------------------------
(* main() *)

xml_file == xml_files[fidx]

DotXml == <<".", "x", "m", "l">>

\* Line 113 with a case-insensitive comparison.
IsRevoked_ignoring_case(status) == status \in {"REVOKED", "revoked", "Revoked"}

\* Line 113: status == "REVOKED"
IsRevoked(status) == status = "REVOKED"

\* Line 160 with a prompt that takes everything but "n" as a yes.
IsAffirmative_unless_n(c) == c # <<"n">>

\* Line 160: confirm in ["", "y", "yes"]
IsAffirmative(c) == c \in {<<>>, <<"y">>, <<"y", "e", "s">>}

\* "x or 'N/A'" of lines 104-105
OrNA(x) == IF Truthy(x) THEN x ELSE <<"N", "/", "A">>

Say(lines) == printed' = printed \o lines

\* No call of process_certificate yet.
NoCall == [called |-> FALSE, parsed |-> [ok |-> FALSE], result |-> ProcessingError]

\* The locals of main() at line 67, before the download.
Locals ==
    /\ online_serials = EmptyTable
    /\ xml_files = <<>>
    /\ fidx = 0
    /\ content = <<>>
    /\ certs = <<>>
    /\ cidx = 0
    /\ last = NoCall
    /\ file_matches = 0
    /\ found_count = 0
    /\ total_count = 0
    /\ files_with_matches = <<>>
    /\ files_to_delete = <<>>
    /\ answer = None
    /\ confirm = None
    /\ didx = 0
    /\ deleted_count = 0
    /\ removes = <<>>

\* main() is entered: SCRIPT_DIR holds up to MaxFiles files.
Init ==
    /\ pc = "fetch"
    /\ \E ids \in SUBSET (1..MaxFiles) :
       \E ext \in [ids -> Extensions] :
       \E text \in [ids -> FileTexts] :
          /\ disk = {FileName(i, ext[i]) : i \in ids}
          /\ raw = [n \in {FileName(i, ext[i]) : i \in ids} |->
                      Tag(text[CHOOSE i \in ids : FileName(i, ext[i]) = n])]
    /\ printed = <<[ev |-> "downloading"]>>
    /\ Locals

\* Lines 67-68.
Fetch ==
    /\ pc = "fetch"
    /\ \E resp \in Responses :
          /\ online_serials' = get_online_serial_list(resp)
          /\ Say(IF FetchRaises(resp) THEN <<[ev |-> "fetch_error"]>> ELSE <<>>)
    /\ pc' = "list"
    /\ UNCHANGED <<raw, disk, xml_files, fidx, content, certs, cidx, last,
                   file_matches, found_count, total_count, files_with_matches,
                   files_to_delete, answer, confirm, didx, deleted_count, removes>>

\* Lines 70-74.  os.listdir gives the names in an arbitrary order.
ListDir ==
    /\ pc = "list"
    /\ \E order \in Orders({f \in disk : EndsWith(Lower(f), DotXml)}) :
          /\ xml_files' = order
          /\ IF order = <<>>
             THEN /\ Say(<<[ev |-> "no_xml_files"]>>)
                  /\ pc' = "done"
                  /\ fidx' = fidx
             ELSE /\ printed' = printed
                  /\ pc' = "loop"
                  /\ fidx' = 1
    /\ UNCHANGED <<raw, online_serials, disk, content, certs, cidx, last,
                   file_matches, found_count, total_count, files_with_matches,
                   files_to_delete, answer, confirm, didx, deleted_count, removes>>

\* Lines 76-83, the file opens and is read.
ReadFile ==
    /\ pc = "loop"
    /\ fidx <= Len(xml_files)
    /\ file_matches' = 0
    /\ total_count' = total_count + 1
    /\ Say(<<[ev |-> "processing", file |-> xml_file]>>)
    /\ content' = Truncate(raw[xml_file])
    /\ pc' = "strip"
    /\ UNCHANGED <<raw, online_serials, disk, xml_files, fidx, certs, cidx,
                   last, found_count, files_with_matches, files_to_delete,
                   answer, confirm, didx, deleted_count, removes>>

\* Lines 76-83, open() or read() raises OSError (no permission, a directory
\* named *.xml, a file removed since the listing): nothing catches it, and
\* main() ends with the traceback.
ReadFileRaises ==
    /\ pc = "loop"
    /\ fidx <= Len(xml_files)
    /\ file_matches' = 0
    /\ total_count' = total_count + 1
    /\ Say(<<[ev |-> "processing", file |-> xml_file], [ev |-> "traceback"]>>)
    /\ pc' = "crashed"
    /\ UNCHANGED <<raw, online_serials, disk, xml_files, fidx, content, certs,
                   cidx, last, found_count, files_with_matches,
                   files_to_delete, answer, confirm, didx, deleted_count, removes>>

\* Line 85.
StripStep ==
    /\ pc = "strip"
    /\ content' = StripComments(content)
    /\ pc' = "findall"
    /\ UNCHANGED <<raw, online_serials, disk, xml_files, fidx, certs, cidx,
                   last, file_matches, found_count, total_count,
                   files_with_matches, files_to_delete, printed, answer, confirm,
                   didx, deleted_count, removes>>

\* Lines 87-95.
FindStep ==
    /\ pc = "findall"
    /\ certs' = FindAll(content)
    /\ IF FindAll(content) = <<>>
       THEN /\ Say(<<[ev |-> "no_certificates"]>>)
            /\ fidx' = fidx + 1
            /\ cidx' = cidx
            /\ pc' = "loop"
       ELSE /\ printed' = printed
            /\ fidx' = fidx
            /\ cidx' = 1
            /\ pc' = "cert"
    /\ UNCHANGED <<raw, online_serials, disk, xml_files, content, last,
                   file_matches, found_count, total_count, files_with_matches,
                   files_to_delete, answer, confirm, didx, deleted_count, removes>>

\* files_with_matches[xml_file].append(match), on a defaultdict(list)
AppendMatch(matches, file, match) ==
    Put(matches, file,
        IF file \in DOMAIN matches THEN Append(matches[file], match)
        ELSE <<match>>)

\* Lines 97-124, one turn of the certificate loop.  cert.strip() of line 98
\* changes nothing: a block starts and ends with dashes.
ProcessCert ==
    /\ pc = "cert"
    /\ \E parsed \in LoadPem(certs[cidx]) :
       LET r == process_certificate(parsed, online_serials)
           reported == r.found /\ r.status_info # NoInfo
           revoked == reported /\ IsRevoked(r.status_info.status)
       IN /\ last' = [called |-> TRUE, parsed |-> parsed, result |-> r]
          /\ Say((IF r.raised THEN <<[ev |-> "processing_error"]>> ELSE <<>>)
                 \o <<[ev |-> "certificate", i |-> cidx,
                       hex_serial |-> OrNA(r.hex_serial),
                       issuer_serial |-> OrNA(r.issuer_serial)]>>
                 \o (IF reported
                     THEN <<[ev |-> "status", status |-> r.status_info.status,
                             reason |-> r.status_info.reason]>>
                     ELSE <<>>))
          /\ found_count' = IF revoked THEN found_count + 1 ELSE found_count
          /\ file_matches' = IF revoked THEN file_matches + 1 ELSE file_matches
          /\ files_with_matches' =
                IF revoked
                THEN AppendMatch(files_with_matches, xml_file,
                         [cert_number |-> cidx, hex_serial |-> r.hex_serial,
                          issuer_serial |-> r.issuer_serial,
                          status |-> r.status_info.status,
                          reason |-> r.status_info.reason])
                ELSE files_with_matches
    /\ cidx' = cidx + 1
    /\ pc' = IF cidx = Len(certs) THEN "endfile" ELSE "cert"
    /\ UNCHANGED <<raw, online_serials, disk, xml_files, fidx, content, certs,
                   total_count, files_to_delete, answer, confirm, didx, deleted_count,
                   removes>>

\* Lines 126-128, and back to the for of line 76.
EndFile ==
    /\ pc = "endfile"
    /\ IF file_matches # 0
       THEN /\ Say(<<[ev |-> "found_matches", n |-> file_matches,
                      file |-> xml_file]>>)
            /\ files_to_delete' = Append(files_to_delete, xml_file)
       ELSE /\ printed' = printed
            /\ files_to_delete' = files_to_delete
    /\ fidx' = fidx + 1
    /\ pc' = "loop"
    /\ UNCHANGED <<raw, online_serials, disk, xml_files, content, certs, cidx,
                   last, file_matches, found_count, total_count,
                   files_with_matches, answer, confirm, didx, deleted_count, removes>>

\* Lines 130-151, after the last file.
Summary ==
    /\ pc = "loop"
    /\ fidx > Len(xml_files)
    /\ Say(<<[ev |-> "final_results", total |-> total_count,
              valid |-> total_count - found_count, revoked |-> found_count]>>
           \o (IF DOMAIN files_with_matches # {}
               THEN <<[ev |-> "matching_keyboxes", matches |-> files_with_matches]>>
               ELSE <<>>)
           \o (IF files_to_delete # <<>>
               THEN <<[ev |-> "files_to_delete", files |-> files_to_delete]>>
               ELSE <<>>))
    /\ pc' = IF files_to_delete # <<>> THEN "prompt" ELSE "done"
    /\ UNCHANGED <<raw, online_serials, disk, xml_files, fidx, content, certs,
                   cidx, last, file_matches, found_count, total_count,
                   files_with_matches, files_to_delete, answer, confirm, didx,
                   deleted_count, removes>>

\* Lines 152-162 and 172-175: the one prompt.
Prompt ==
    /\ pc = "prompt"
    /\ \E typed \in Answers :
          /\ answer' = typed
          /\ confirm' = Lower(Strip(typed))
          /\ IF IsAffirmative(Lower(Strip(typed)))
             THEN /\ Say(<<[ev |-> "deleting"]>>)
                  /\ didx' = 1
                  /\ pc' = "delete"
             ELSE /\ Say(<<[ev |-> "deletion_cancelled"]>>)
                  /\ didx' = didx
                  /\ pc' = "done"
    /\ deleted_count' = 0
    /\ UNCHANGED <<raw, online_serials, disk, xml_files, fidx, content, certs,
                   cidx, last, file_matches, found_count, total_count,
                   files_with_matches, files_to_delete, removes>>

file_name == files_to_delete[didx]

\* Lines 163-168: os.remove succeeds.
DeleteFile ==
    /\ pc = "delete"
    /\ didx <= Len(files_to_delete)
    /\ file_name \in disk
    /\ disk' = disk \ {file_name}
    /\ removes' = Append(removes, [file |-> file_name, ok |-> TRUE])
    /\ Say(<<[ev |-> "deleted", file |-> file_name]>>)
    /\ deleted_count' = deleted_count + 1
    /\ didx' = didx + 1
    /\ UNCHANGED <<pc, raw, online_serials, xml_files, fidx, content, certs,
                   cidx, last, file_matches, found_count, total_count,
                   files_with_matches, files_to_delete, answer, confirm>>

\* Lines 163-170 with the except branch leaving the loop.
DeleteFileRaises_and_stops ==
    /\ pc = "delete"
    /\ didx <= Len(files_to_delete)
    /\ removes' = Append(removes, [file |-> file_name, ok |-> FALSE])
    /\ Say(<<[ev |-> "error_deleting", file |-> file_name]>>)
    /\ didx' = Len(files_to_delete) + 1
    /\ UNCHANGED <<pc, raw, online_serials, disk, xml_files, fidx, content,
                   certs, cidx, last, file_matches, found_count, total_count,
                   files_with_matches, files_to_delete, answer, confirm, deleted_count>>

\* Lines 163-170: os.remove raises (no permission, the file is gone).
DeleteFileRaises ==
    /\ pc = "delete"
    /\ didx <= Len(files_to_delete)
    /\ removes' = Append(removes, [file |-> file_name, ok |-> FALSE])
    /\ Say(<<[ev |-> "error_deleting", file |-> file_name]>>)
    /\ didx' = didx + 1
    /\ UNCHANGED <<pc, raw, online_serials, disk, xml_files, fidx, content,
                   certs, cidx, last, file_matches, found_count, total_count,
                   files_with_matches, files_to_delete, answer, confirm, deleted_count>>

\* Line 171, after the last candidate.
DeleteDone ==
    /\ pc = "delete"
    /\ didx > Len(files_to_delete)
    /\ Say(<<[ev |-> "total_deleted", n |-> deleted_count]>>)
    /\ pc' = "done"
    /\ UNCHANGED <<raw, online_serials, disk, xml_files, fidx, content, certs,
                   cidx, last, file_matches, found_count, total_count,
                   files_with_matches, files_to_delete, answer, confirm, didx,
                   deleted_count, removes>>

Next ==
    \/ Fetch
    \/ ListDir
    \/ ReadFile
    \/ ReadFileRaises
    \/ StripStep
    \/ FindStep
    \/ ProcessCert
    \/ EndFile
    \/ Summary
    \/ Prompt
    \/ DeleteFile
    \/ DeleteFileRaises
    \/ DeleteDone

Spec == Init /\ [][Next]_vars

-----------------------------------------------------------------------------
(* The text steps on every small raw text *)

RECURSIVE Concat(_)
Concat(pieces) ==
    IF pieces = <<>> THEN <<>> ELSE Head(pieces) \o Concat(Tail(pieces))

\* What a raw text is assembled from: each lexeme alone, and a certificate
\* in its PEM framing.
Pieces ==
    {<<Lex(k)>> : k \in {"T", "CO", "CC", "D", "BC", "EC", "X"}}
    \cup {Pem(CertD)}

ExtractTexts ==
    UNION {{Concat(p) : p \in [1..n -> Pieces]} : n \in 0..MaxPieces}

OnlyFile == FileName(1, <<".", "X", "m", "l">>)

\* main() at the for of line 76, the download having failed, with one file of
\* any raw text in SCRIPT_DIR.
InitExtract ==
    /\ pc = "loop"
    /\ disk = {OnlyFile}
    /\ \E text \in ExtractTexts : raw = [n \in {OnlyFile} |-> Tag(text)]
    /\ printed = <<[ev |-> "downloading"], [ev |-> "fetch_error"]>>
    /\ online_serials = EmptyTable
    /\ xml_files = <<OnlyFile>>
    /\ fidx = 1
    /\ content = <<>>
    /\ certs = <<>>
    /\ cidx = 0
    /\ last = NoCall
    /\ file_matches = 0
    /\ found_count = 0
    /\ total_count = 0
    /\ files_with_matches = <<>>
    /\ files_to_delete = <<>>
    /\ answer = None
    /\ confirm = None
    /\ didx = 0
    /\ deleted_count = 0
    /\ removes = <<>>

NextExtract ==
    \/ ReadFile
    \/ StripStep
    \/ FindStep

SpecExtract == InitExtract /\ [][NextExtract]_vars

-----------------------------------------------------------------------------
(* process_certificate on every small certificate and table *)

IssuerChars == {"1", "A", "G"}

IssuerValues ==
    UNION {[1..n -> IssuerChars] : n \in 1..MaxIssuerLen}

Issuers ==
    {<<>>}
    \cup {<<Attr("SERIAL_NUMBER", v)>> : v \in IssuerValues}
    \cup {<<Attr("CN", <<"G">>), Attr("SERIAL_NUMBER", v)>> : v \in IssuerValues}
    \cup {<<Attr("SERIAL_NUMBER", v), Attr("SERIAL_NUMBER", <<"1">>)>> :
             v \in IssuerValues}

Certificates ==
    {Cert(n, issuer) : n \in 0..MaxSerial, issuer \in Issuers}

TableKeys == {<<>>, <<"1">>, <<"a">>, <<"1", "0">>}

\* The entry a table holds under a key; no two keys share an entry.
EntryOf(key) ==
    [status |-> IF key \in {<<>>, <<"a">>} THEN "REVOKED" ELSE "SUSPENDED",
     reason |-> CASE key = <<>> -> "KEY_COMPROMISE"
                  [] key = <<"1">> -> "CA_COMPROMISE"
                  [] key = <<"a">> -> "SUPERSEDED"
                  [] OTHER -> "SOFTWARE_FLAW"]

Tables == {[k \in keys |-> EntryOf(k)] : keys \in SUBSET TableKeys}

\* main() at line 97 with one file holding one certificate, after a download
\* that gave any of the tables.
InitCert ==
    /\ pc = "cert"
    /\ disk = {OnlyFile}
    /\ \E cert \in Certificates :
          /\ raw = [n \in {OnlyFile} |-> Tag(Pem(cert))]
          /\ content = Tag(Pem(cert))
          /\ certs = <<Tag(Pem(cert))>>
    /\ printed = <<[ev |-> "downloading"], [ev |-> "processing", file |-> OnlyFile]>>
    /\ online_serials \in Tables
    /\ xml_files = <<OnlyFile>>
    /\ fidx = 1
    /\ cidx = 1
    /\ last = NoCall
    /\ file_matches = 0
    /\ found_count = 0
    /\ total_count = 1
    /\ files_with_matches = <<>>
    /\ files_to_delete = <<>>
    /\ answer = None
    /\ confirm = None
    /\ didx = 0
    /\ deleted_count = 0
    /\ removes = <<>>

NextCert ==
    \/ ProcessCert
    \/ EndFile

SpecCert == InitCert /\ [][NextCert]_vars

-----------------------------------------------------------------------------
(* Properties *)

Range(seq) == {seq[i] : i \in 1..Len(seq)}

\* Some line with this tag has been printed.
Printed(ev) == \E i \in 1..Len(printed) : printed[i].ev = ev

\* The file loop is over: main() is at line 130 or beyond.
AfterLoop ==
    \/ pc = "loop" /\ fidx > Len(xml_files)
    \/ pc \in {"prompt", "delete"}
    \/ pc = "done" /\ xml_files # <<>>

\* A "STATUS: <status>" line is among the lines printed for file f, that is
\* between its "Processing f..." line and the next such line.
StatusPrinted(f, status) ==
    \E j, i \in 1..Len(printed) :
        /\ j < i
        /\ printed[j].ev = "processing" /\ printed[j].file = f
        /\ printed[i].ev = "status" /\ printed[i].status = status
        /\ \A k \in (j + 1)..(i - 1) : printed[k].ev # "processing"

\* The answers that the prompt takes as a yes, once trimmed and lowercased.
Yes == {<<>>, <<"y">>, <<"y", "e", "s">>}

\* C1: a file is removed only after the prompt was answered with "", "y" or
\* "yes" (trimmed, lowercased); before the prompt and after any other answer
\* no os.remove has been called and the files on disk are those of the start.
C1_DeletionNeedsConsent ==
    /\ removes # <<>> =>
          /\ answer # None
          /\ Lower(Strip(answer)) \in Yes
    /\ (answer = None \/ Lower(Strip(answer)) \notin Yes) =>
          /\ removes = <<>>
          /\ disk = DOMAIN raw
          /\ pc # "delete"

\* The prompt got "n" and the run is over with every file still there.
C1_Witness ==
    /\ pc = "done"
    /\ answer = <<"n">>
    /\ Cardinality(Range(files_to_delete)) = 2
    /\ disk = DOMAIN raw

\* C2: after the file loop a scanned file is in files_to_delete iff a
\* "STATUS: REVOKED" line (exactly that status) was printed for one of its
\* certificates.
C2_FlaggedIffRevoked ==
    AfterLoop =>
        \A f \in Range(xml_files) :
            f \in Range(files_to_delete) <=> StatusPrinted(f, "REVOKED")

\* One file is flagged, another matched an entry of status "revoked" and is
\* not.
C2_Witness ==
    /\ AfterLoop
    /\ \E f, g \in Range(xml_files) :
          /\ f \in Range(files_to_delete)
          /\ g \notin Range(files_to_delete)
          /\ StatusPrinted(g, "revoked")

\* The files for which a "STATUS: REVOKED" line was printed.
RevokedFiles == {f \in Range(xml_files) : StatusPrinted(f, "REVOKED")}

\* C3: the tally gives total = files scanned, revoked = files with at least
\* one revoked certificate, valid = files with none, and valid >= 0.
C3_TallyCountsFiles ==
    \A i \in 1..Len(printed) :
        printed[i].ev = "final_results" =>
            /\ printed[i].total = Len(xml_files)
            /\ printed[i].revoked = Cardinality(RevokedFiles)
            /\ printed[i].valid = Len(xml_files) - Cardinality(RevokedFiles)
            /\ printed[i].valid >= 0

\* C4: once the download has failed the table is empty, no certificate is
\* matched, no file is flagged, the prompt is not reached and no file is
\* removed.
C4_FetchFailureFlagsNothing ==
    Printed("fetch_error") =>
        /\ online_serials = EmptyTable
        /\ ~Printed("status")
        /\ ~last.result.found
        /\ files_to_delete = <<>>
        /\ pc \notin {"prompt", "delete"}
        /\ removes = <<>>
        /\ disk = DOMAIN raw

\* The download failed and the run went on to the summary, over a file with
\* a certificate in it.
C4_Witness ==
    /\ Printed("fetch_error")
    /\ Printed("certificate")
    /\ Printed("final_results")
    /\ pc = "done"

\* process_certificate has returned for a certificate that loaded.
Processed == last.called /\ last.parsed.ok

\* C5 as stated: the entry under the subject serial when that is a key; else
\* the entry under the issuer serial when that is not None and a key; else no
\* match.
C5_LookupPrecedence ==
    Processed =>
        LET r == last.result
        IN IF r.hex_serial \in DOMAIN online_serials
           THEN r.status_info = online_serials[r.hex_serial]
           ELSE IF r.issuer_serial # None
                   /\ r.issuer_serial \in DOMAIN online_serials
                THEN r.status_info = online_serials[r.issuer_serial]
                ELSE r.status_info = NoInfo /\ ~r.found

\* C5 amended: as C5, the issuer serial being looked up only when it is
\* neither None nor the empty string.
C5_LookupPrecedenceNonEmptyIssuer ==
    Processed =>
        LET r == last.result
        IN IF r.hex_serial \in DOMAIN online_serials
           THEN r.status_info = online_serials[r.hex_serial] /\ r.found
           ELSE IF r.issuer_serial # None /\ r.issuer_serial # <<>>
                   /\ r.issuer_serial \in DOMAIN online_serials
                THEN r.status_info = online_serials[r.issuer_serial] /\ r.found
                ELSE r.status_info = NoInfo /\ ~r.found

\* Subject serial and issuer serial are two different keys of the table.
C5_Witness ==
    /\ Processed
    /\ last.result.hex_serial \in DOMAIN online_serials
    /\ last.result.issuer_serial \in DOMAIN online_serials
    /\ last.result.issuer_serial # last.result.hex_serial
    /\ online_serials[last.result.issuer_serial]
          # online_serials[last.result.hex_serial]

\* C6: the subject serial of a certificate that loaded is a non-empty string
\* of lowercase hexadecimal digits, without a leading "0" unless the serial
\* number is zero, and then it is "0".
C6_HexSerialWellFormed ==
    Processed =>
        LET h == last.result.hex_serial
        IN /\ h # <<>>
           /\ \A i \in 1..Len(h) : h[i] \in HexChars
           /\ IF last.parsed.cert.serial_number = 0
              THEN h = <<"0">>
              ELSE h[1] # "0"

\* C7: a run over at least one XML file that has ended, in whatever way, has
\* printed the final results.
C7_SummaryAlwaysReached ==
    (pc \in {"done", "crashed"} /\ xml_files # <<>>) => Printed("final_results")

\* The files of the os.remove calls made so far, in order.
RemovedFiles == [i \in 1..Len(removes) |-> removes[i].file]

\* C8: the os.remove calls go through files_to_delete in order, one call per
\* file, a failed call being followed by the next; after a yes the run ends
\* with one call made for every candidate, and the count printed is the
\* number of calls that succeeded, which are the files gone from the disk.
C8_EveryCandidateAttemptedOnce ==
    /\ RemovedFiles = SubSeq(files_to_delete, 1, Len(removes))
    /\ deleted_count = Cardinality({i \in 1..Len(removes) : removes[i].ok})
    /\ disk = (DOMAIN raw) \ {removes[i].file : i \in {j \in 1..Len(removes) : removes[j].ok}}
    /\ (pc = "done" /\ confirm \in Yes) =>
          /\ RemovedFiles = files_to_delete
          /\ \E i \in 1..Len(printed) :
                /\ printed[i].ev = "total_deleted"
                /\ printed[i].n = Cardinality({j \in 1..Len(removes) : removes[j].ok})

\* The first removal failed and the second was made and succeeded.
C8_Witness ==
    /\ pc = "done"
    /\ Len(removes) = 2
    /\ ~removes[1].ok
    /\ removes[2].ok
    /\ deleted_count = 1

\* The text steps of the only file are done.
Extracted == pc = "cert" \/ (pc = "loop" /\ fidx = 2)

TheRaw == raw[OnlyFile]

\* i..j is a comment of the raw text: a "<!--" and the first "-->" behind it.
IsComment(i, j) ==
    /\ i \in 1..Len(TheRaw) /\ j \in 1..Len(TheRaw)
    /\ TheRaw[i].k = "CO"
    /\ j = IndexFrom(TheRaw, "CC", i + 1)

\* C9: no extracted block lies entirely inside a comment of the raw text.
C9_CommentedCertificateNotExtracted ==
    Extracted =>
        \A n \in 1..Len(certs) :
        \A i, j \in 1..Len(TheRaw) :
            IsComment(i, j) =>
                ~(\A k \in 1..Len(certs[n]) :
                      i < certs[n][k].at /\ certs[n][k].at < j)

\* The number of BEGIN markers, and of END markers, in a block.
Begins(block) ==
    Cardinality({i \in 1..Len(block) - 1 : block[i].k = "D" /\ block[i + 1].k = "BC"})

Ends(block) ==
    Cardinality({i \in 1..Len(block) - 1 : block[i].k = "D" /\ block[i + 1].k = "EC"})

\* The blocks one after the other.
AllBlocks == Concat(certs)

\* A block is a slice of the text it was found in.
IsSlice(block, text) ==
    \E i \in 1..Len(text) : block = SubSeq(text, i, i + Len(block) - 1)

\* C10 as stated: every block begins with a BEGIN marker, ends at its END
\* marker, holds no second BEGIN marker, and the blocks are in the order of
\* the text.
C10_OneBeginPerBlock ==
    Extracted =>
        /\ \A n \in 1..Len(certs) :
              /\ certs[n][1].k = "D" /\ certs[n][2].k = "BC"
              /\ certs[n][Len(certs[n])].k = "D"
              /\ Begins(certs[n]) = 1
              /\ Ends(certs[n]) = 1
        /\ \A k \in 1..Len(AllBlocks) - 1 : AllBlocks[k].at < AllBlocks[k + 1].at

\* C10 amended: every block is a slice of the text that begins with a BEGIN
\* marker, holds exactly one END marker and ends with the first dashes behind
\* it; the blocks do not overlap and are in the order of the text.
C10_OneEndPerBlock ==
    Extracted =>
        /\ \A n \in 1..Len(certs) :
              LET b == certs[n]
              IN /\ IsSlice(b, content)
                 /\ b[1].k = "D" /\ b[2].k = "BC"
                 /\ b[Len(b)].k = "D"
                 /\ Ends(b) = 1
                 /\ \A e \in 1..Len(b) - 1 :
                       (b[e].k = "D" /\ b[e + 1].k = "EC") =>
                           /\ e >= 3
                           /\ \A d \in (e + 2)..(Len(b) - 1) : b[d].k # "D"
        /\ \A k \in 1..Len(AllBlocks) - 1 : AllBlocks[k].at < AllBlocks[k + 1].at

\* Two certificates, one behind the other, come out as two blocks.
C10_Witness ==
    /\ Extracted
    /\ Len(certs) = 2
    /\ Kinds(certs[1]) = PemKinds
    /\ Kinds(certs[2]) = PemKinds

====
